---- MODULE Spec2Model ----
(***************************************************************************)
(* A model of folium/map.py: the element tree built by the constructors    *)
(* and add_child, and the render walk that appends script blocks to the    *)
(* Figure's script buffer.  A node is a pair <<class name, index>>; its    *)
(* generated identifier (get_name()) is the node itself.                   *)
(***************************************************************************)
EXTENDS Naturals, Sequences, FiniteSets

\* ------------------------------------------------------------------ bounds
\* The objects a caller may construct, and the display names it may give.
MaxGroups == 1
MaxMarkers == 2
MaxElements == 2
MaxNames == 1
\* The number of calls a caller makes.
MaxCalls == 6

\* ---------------------------------------------------------------- universe
\* A document has one Figure holding one Map, one LayerControl, one Icon, one
\* FitBounds, one plain Layer and one Popup; the other classes are bounded above.
None == <<"None", 0>>
Fig == <<"Figure", 1>>
Map == <<"Map", 1>>
Control == <<"LayerControl", 1>>
TheIcon == <<"Icon", 1>>
Fit == <<"FitBounds", 1>>

PlainLayers == {<<"Layer", 1>>}
Groups == {<<"FeatureGroup", i>> : i \in 1..MaxGroups}
Layers == PlainLayers \cup Groups
Markers == {<<"Marker", i>> : i \in 1..MaxMarkers}
Popups == {<<"Popup", 1>>}
Elements == {<<"Element", i>> : i \in 1..MaxElements}
HeaderOf(p) == <<"PopupHeader", p[2]>>
HtmlOf(p) == <<"PopupHtml", p[2]>>
ScriptOf(p) == <<"PopupScript", p[2]>>
SubElements == UNION {{HeaderOf(p), HtmlOf(p), ScriptOf(p)} : p \in Popups}

Nodes == {Fig, Map, Control, TheIcon, Fit} \cup Layers \cup Markers
           \cup Popups \cup Elements \cup SubElements

Kind(n) == n[1]
IsLayer(n) == Kind(n) \in {"Layer", "FeatureGroup"}
GivenNames == {<<"name", i>> : i \in 1..MaxNames}

\* made: the constructed objects.  parent, children: Element._parent and the
\* values of Element._children in insertion order.  layer_name, overlay,
\* control: the fields of a Layer.  bounds: FitBounds.bounds.  base_layers,
\* overlays: the control's mappings.  script: the Figure's script buffer, an
\* ordered dictionary from a node's name to its block of statements.  err: the
\* exception the last call raised, or "none".
VARIABLES made, parent, children, layer_name, overlay, control, bounds,
          base_layers, overlays, script, err, call, before, ncalls

vars == <<made, parent, children, layer_name, overlay, control, bounds,
          base_layers, overlays, script, err, call, before, ncalls>>

tree == <<made, parent, children>>
flags == <<layer_name, overlay, control>>
outputs == <<base_layers, overlays, script>>

\* ------------------------------------------------- ordered dictionaries
\* An OrderedDict is a sequence of <<key, value>> pairs with distinct keys.
Keys(d) == {d[i][1] : i \in 1..Len(d)}
Values(d) == {d[i][2] : i \in 1..Len(d)}
Lookup(d, k) == (CHOOSE i \in 1..Len(d) : d[i][1] = k)

\* d[k] = v : an existing key keeps its place and takes the new value, a new
\* key goes to the end.
DictPut(d, k, v) ==
    IF k \in Keys(d)
    THEN [i \in 1..Len(d) |-> IF d[i][1] = k THEN <<k, v>> ELSE d[i]]
    ELSE Append(d, <<k, v>>)

\* OrderedDict(pairs)
RECURSIVE OrderedDict(_)
OrderedDict(pairs) ==
    IF pairs = <<>> THEN <<>>
    ELSE LET n == Len(pairs)
         IN DictPut(OrderedDict(SubSeq(pairs, 1, n - 1)), pairs[n][1], pairs[n][2])

\* ------------------------------------------------------ the element tree
\* Element.get_root
RECURSIVE GetRoot(_)
GetRoot(n) == IF parent[n] = None THEN n ELSE GetRoot(parent[n])

InSeq(x, s) == \E i \in 1..Len(s) : s[i] = x

\* Element.add_child(child) on the tree variables: _children[child.get_name()]
\* = child, child._parent = self.
AddTo(tr, p, c) ==
    [tr EXCEPT !.children[p] = IF InSeq(c, @) THEN @ ELSE Append(@, c),
               !.parent[c] = p]

\* Html(text) built by a constructor: an element no tree holds yet.
Fresh(tr) == {e \in Elements : tr.parent[e] = None
                /\ \A n \in Nodes : ~InSeq(e, tr.children[n])}

\* Popup.__init__(html): the three sub-trees point at the popup, and the
\* content goes under self.html.  html is None, an Element, or <<"text", 0>>
\* for a string (wrapped into a new Html element e).
PopupNew(tr, p, html, e) ==
    LET t1 == [tr EXCEPT !.made = @ \cup {p, HeaderOf(p), HtmlOf(p), ScriptOf(p)},
                         !.parent[HeaderOf(p)] = p,
                         !.parent[HtmlOf(p)] = p,
                         !.parent[ScriptOf(p)] = p]
    IN IF Kind(html) = "Element" THEN AddTo(t1, HtmlOf(p), html)
       ELSE IF Kind(html) = "text" THEN AddTo(t1, HtmlOf(p), e)
       ELSE t1

\* Marker.__init__(location, popup, icon): the icon is attached first, then
\* the popup; a string popup is wrapped into a new Popup q.
MarkerNew(tr, m, icon, popup, q, e) ==
    LET t0 == [tr EXCEPT !.made = @ \cup {m}]
        t1 == IF icon # None THEN AddTo(t0, m, icon) ELSE t0
    IN IF Kind(popup) = "text"
       THEN AddTo(PopupNew(t1, q, popup, e), m, q)
       ELSE IF popup # None THEN AddTo(t1, m, popup)
       ELSE t1

\* ------------------------------------------------------------ templates
\* A statement of a script block: op is the library call, def the identifier
\* the statement declares (var x = ...), refs the identifiers it uses, arg a
\* literal argument.
Stmt(op, d, refs, arg) == [op |-> op, def |-> d, refs |-> refs, arg |-> arg]
NoArg == <<"", 0>>

\* The attributes FitBounds.__init__ sets; the template reads any other
\* attribute as jinja2's Undefined, which is false in {% if %}.
FitBoundsAttrs == {"_name", "bounds", "fit_bounds_options", "_template"}

\* json.loads(json.dumps(bounds)): tuples come back as lists.
JsonRoundTrip(b) ==
    CASE b = <<"tuple", 0>> -> <<"list", 0>>
      [] b = <<"tuple", 2>> -> <<"list", 2>>
      [] OTHER -> b
BoundsArgs == {None, <<"list", 0>>, <<"tuple", 0>>, <<"list", 2>>, <<"tuple", 2>>}
\* Python truth of a bounds value: None and the empty list are false.
Truthy(b) == b # None /\ b[2] # 0

\* The top-level map's script macro declares the map's identifier.
MapScript(n) == << Stmt("L.map", n, <<>>, NoArg) >>

FeatureGroupScript(n) == << Stmt("L.featureGroup.addTo", n, <<parent[n]>>, NoArg) >>

MapValues(d) == [i \in 1..Len(d) |-> d[i][2]]

LayerControlScript(n, base, over) ==
    << Stmt("layers", n, MapValues(base) \o MapValues(over), NoArg),
       Stmt("L.control.layers.addTo", None, <<n, parent[n]>>, NoArg) >>

IconScript(n) ==
    << Stmt("L.AwesomeMarkers.icon", n, <<>>, NoArg),
       Stmt("setIcon", None, <<parent[n], n>>, NoArg) >>

MarkerScript(n) == << Stmt("L.marker.addTo", n, <<parent[n]>>, NoArg) >>

FitBoundsScript(n) ==
    (IF "autobounds" \in FitBoundsAttrs
     THEN << Stmt("autobounds", <<"autobounds", 0>>, <<>>, NoArg) >>
     ELSE <<>>)
    \o << Stmt("fitBounds", None, <<parent[n]>>,
               IF Truthy(bounds[n]) THEN bounds[n] ELSE <<"'autobounds'", 0>>) >>

\* Popup._template: creation, the content of self.html, the bind, then the
\* children of self.script.
RECURSIVE ContentStmts(_, _)
ContentStmts(p, kids) ==
    IF kids = <<>> THEN <<>>
    ELSE << Stmt("$", Head(kids), <<>>, Head(kids)),
            Stmt("setContent", None, <<p, Head(kids)>>, NoArg) >>
         \o ContentStmts(p, Tail(kids))

InlineStmts(kids) == [i \in 1..Len(kids) |-> Stmt("inline", None, <<>>, kids[i])]

\* A template that binds the popup before setting its content.
MutPopupTemplate(p) ==
    << Stmt("L.popup", p, <<>>, NoArg) >>
    \o << Stmt("bindPopup", None, <<parent[p], p>>, NoArg) >>
    \o ContentStmts(p, children[HtmlOf(p)])
    \o InlineStmts(children[ScriptOf(p)])

PopupTemplate(p) ==
    << Stmt("L.popup", p, <<>>, NoArg) >>
    \o ContentStmts(p, children[HtmlOf(p)])
    \o << Stmt("bindPopup", None, <<parent[p], p>>, NoArg) >>
    \o InlineStmts(children[ScriptOf(p)])

\* --------------------------------------------------------------- render
\* What a render call can change: the Figure's script buffer, the control's
\* two mappings, and the exception that ends the call.
IsFigure(n) == Kind(n) = "Figure"

\* A base-layer test that forgets the control flag.
MutIsBaseLayer(val) == IsLayer(val) /\ ~overlay[val]

\* isinstance(val, Layer) and (not hasattr(val, 'overlay') or not val.overlay)
\* and (not hasattr(val, 'control') or val.control)
IsBaseLayer(val) == IsLayer(val) /\ ~overlay[val] /\ control[val]
\* isinstance(val, Layer) and (hasattr(val, 'overlay') and val.overlay)
\* and (not hasattr(val, 'control') or val.control)
IsOverlay(val) == IsLayer(val) /\ overlay[val] /\ control[val]

RECURSIVE Pairs(_, _, _)
Pairs(kids, i, base) ==
    IF i > Len(kids) THEN <<>>
    ELSE (IF (base /\ IsBaseLayer(kids[i])) \/ (~base /\ IsOverlay(kids[i]))
          THEN << <<layer_name[kids[i]], kids[i]>> >> ELSE <<>>)
         \o Pairs(kids, i + 1, base)

BaseLayersOf(kids) == OrderedDict(Pairs(kids, 1, TRUE))
OverlaysOf(kids) == OrderedDict(Pairs(kids, 1, FALSE))

HasScript(n) == Kind(n) \in {"Map", "FeatureGroup", "LayerControl", "Icon",
                             "Marker", "FitBounds"}

ScriptOfNode(n, st) ==
    CASE Kind(n) = "Map" -> MapScript(n)
      [] Kind(n) = "FeatureGroup" -> FeatureGroupScript(n)
      [] Kind(n) = "LayerControl" -> LayerControlScript(n, st.base[n], st.over[n])
      [] Kind(n) = "Icon" -> IconScript(n)
      [] Kind(n) = "Marker" -> MarkerScript(n)
      [] Kind(n) = "FitBounds" -> FitBoundsScript(n)

Raise(st, e) == [st EXCEPT !.err = e]

\* figure.script.add_child(Element(text), name=self.get_name())
Emit(st, n, block) == [st EXCEPT !.script = DictPut(@, n, block)]

RECURSIVE RenderNode(_, _)
RECURSIVE RenderChildren(_, _, _)
RenderChildren(kids, i, st) ==
    IF i > Len(kids) \/ st.err # "none" THEN st
    ELSE RenderChildren(kids, i + 1, RenderNode(kids[i], st))

\* MacroElement.render: the root must be a Figure; the node's script goes to
\* the buffer, then the children render in insertion order.
MacroRender(n, st) ==
    IF ~IsFigure(GetRoot(n)) THEN Raise(st, "AssertionError")
    ELSE RenderChildren(children[n], 1,
             IF HasScript(n) THEN Emit(st, n, ScriptOfNode(n, st)) ELSE st)

RECURSIVE Merge(_, _)
Merge(d, pairs) ==
    IF pairs = <<>> THEN d
    ELSE Merge(DictPut(d, Head(pairs)[1], Head(pairs)[2]), Tail(pairs))

\* A render that updates the two mappings in place instead of rebuilding them.
MutLayerControlRenderUpdate(n, st) ==
    IF parent[n] = None THEN Raise(st, "AttributeError")
    ELSE LET kids == children[parent[n]]
         IN MacroRender(n, [st EXCEPT !.base[n] = Merge(@, Pairs(kids, 1, TRUE)),
                                      !.over[n] = Merge(@, Pairs(kids, 1, FALSE))])

\* A render that reads a missing parent as one without children.
MutLayerControlRenderNoParent(n, st) ==
    LET kids == IF parent[n] = None THEN <<>> ELSE children[parent[n]]
    IN MacroRender(n, [st EXCEPT !.base[n] = BaseLayersOf(kids),
                                 !.over[n] = OverlaysOf(kids)])

\* LayerControl.render
LayerControlRender(n, st) ==
    IF parent[n] = None THEN Raise(st, "AttributeError")
    ELSE LET kids == children[parent[n]]
         IN MacroRender(n, [st EXCEPT !.base[n] = BaseLayersOf(kids),
                                      !.over[n] = OverlaysOf(kids)])

\* Popup.render
PopupRender(p, st) ==
    LET st1 == RenderChildren(children[p], 1, st)
    IN IF st1.err # "none" THEN st1
       ELSE IF ~IsFigure(GetRoot(p)) THEN Raise(st1, "AssertionError")
       ELSE Emit(st1, p, PopupTemplate(p))

\* Figure.render: the children render in insertion order.
FigureRender(n, st) == RenderChildren(children[n], 1, st)

RenderNode(n, st) ==
    CASE Kind(n) = "Figure" -> FigureRender(n, st)
      [] Kind(n) = "LayerControl" -> LayerControlRender(n, st)
      [] Kind(n) = "Popup" -> PopupRender(n, st)
      [] Kind(n) \in {"Element", "PopupHeader", "PopupHtml", "PopupScript"} -> st
      [] OTHER -> MacroRender(n, st)

\* ---------------------------------------------------------------- state
Init ==
    /\ made = {Fig, Map, Control, TheIcon} \cup Elements
    /\ parent = [n \in Nodes |-> IF n = Map THEN Fig ELSE None]
    /\ children = [n \in Nodes |-> IF n = Fig THEN <<Map>> ELSE <<>>]
    /\ layer_name = [l \in Layers |-> None]
    /\ overlay = [l \in Layers |-> FALSE]
    /\ control = [l \in Layers |-> TRUE]
    /\ bounds = [f \in {Fit} |-> None]
    /\ base_layers = [c \in {Control} |-> <<>>]
    /\ overlays = [c \in {Control} |-> <<>>]
    /\ script = <<>>
    /\ err = "none"
    /\ call = <<"build", None>>
    /\ before = [base |-> <<>>, over |-> <<>>]
    /\ ncalls = 0

Tree == [made |-> made, parent |-> parent, children |-> children]

SetTree(tr) ==
    /\ made' = tr.made
    /\ parent' = tr.parent
    /\ children' = tr.children

\* call records the render call last made (and <<"build", None>> after any
\* other call), before the control's mappings as that call found them,
\* ncalls the number of calls made.
Called(op, n) ==
    /\ ncalls < MaxCalls
    /\ ncalls' = ncalls + 1
    /\ before' = [base |-> base_layers[Control], over |-> overlays[Control]]
    /\ call' = IF op = "render" THEN <<op, n>> ELSE <<"build", None>>

\* Objects of one class are interchangeable: they are constructed in the
\* order of their indices.
IsFirst(n, S) == n \in S /\ \A o \in S : n[2] <= o[2]
IsNext(n, S) == IsFirst(n, S \ made)

\* The class default of the overlay argument: Layer False, FeatureGroup True.
OverlayDefault(l) == Kind(l) = "FeatureGroup"
Flag(arg, default) == IF arg = "default" THEN default ELSE arg = "True"
\* The arguments that matter: the default, and the value that differs from it.
OverlayArgs(l) == {"default", IF OverlayDefault(l) THEN "False" ELSE "True"}
ControlArgs == {"default", "False"}

\* Layer.__init__ / FeatureGroup.__init__(name, overlay, control)
LayerInit(l, name, ov, ct) ==
    /\ IsNext(l, IF Kind(l) = "Layer" THEN PlainLayers ELSE Groups)
    /\ Called("Layer", l)
    /\ made' = made \cup {l}
    /\ layer_name' = [layer_name EXCEPT ![l] = IF name # None THEN name ELSE l]
    /\ overlay' = [overlay EXCEPT ![l] = Flag(ov, OverlayDefault(l))]
    /\ control' = [control EXCEPT ![l] = Flag(ct, TRUE)]
    /\ err' = "none"
    /\ UNCHANGED <<parent, children, bounds, base_layers, overlays, script>>

\* layer.overlay = b
SetOverlay(l, b) ==
    /\ l \in made
    /\ overlay[l] # b
    /\ Called("overlay", l)
    /\ overlay' = [overlay EXCEPT ![l] = b]
    /\ err' = "none"
    /\ UNCHANGED <<tree, layer_name, control, bounds, outputs>>

\* layer.control = b
SetControl(l, b) ==
    /\ l \in made
    /\ control[l] # b
    /\ Called("control", l)
    /\ control' = [control EXCEPT ![l] = b]
    /\ err' = "none"
    /\ UNCHANGED <<tree, layer_name, overlay, bounds, outputs>>

\* FitBounds.__init__(bounds)
FitBoundsInit(f, b) ==
    /\ f \notin made
    /\ Called("FitBounds", f)
    /\ made' = made \cup {f}
    /\ bounds' = [bounds EXCEPT ![f] = JsonRoundTrip(b)]
    /\ err' = "none"
    /\ UNCHANGED <<parent, children, flags, outputs>>

\* Marker.__init__(location, popup, icon)
MarkerInit(m, icon, popup) ==
    /\ IsNext(m, Markers)
    /\ icon \in made \cup {None}
    /\ popup \in made \cup {None, <<"text", 0>>}
    /\ Called("Marker", m)
    /\ IF Kind(popup) = "text"
       THEN \E q \in Popups : \E e \in Fresh(Tree) :
                /\ IsNext(q, Popups)
                /\ IsFirst(e, Fresh(Tree))
                /\ SetTree(MarkerNew(Tree, m, icon, popup, q, e))
       ELSE SetTree(MarkerNew(Tree, m, icon, popup, None, None))
    /\ err' = "none"
    /\ UNCHANGED <<flags, bounds, outputs>>

\* Popup.__init__(html)
PopupInit(p, html) ==
    /\ IsNext(p, Popups)
    /\ Called("Popup", p)
    /\ IF Kind(html) = "text"
       THEN \E e \in Fresh(Tree) :
                IsFirst(e, Fresh(Tree)) /\ SetTree(PopupNew(Tree, p, html, e))
       ELSE SetTree(PopupNew(Tree, p, html, None))
    /\ err' = "none"
    /\ UNCHANGED <<flags, bounds, outputs>>

\* The add_child calls of a caller building a document.
Accepts(p, c) ==
    CASE Kind(p) = "Figure" -> c = Map
      [] Kind(p) = "Map" -> IsLayer(c) \/ Kind(c) \in {"LayerControl", "Marker", "FitBounds"}
      [] Kind(p) = "FeatureGroup" -> Kind(c) = "Marker"
      [] Kind(p) = "Marker" -> Kind(c) \in {"Icon", "Popup"}
      [] Kind(p) = "Popup" -> Kind(c) = "Icon"
      [] Kind(p) \in {"PopupHtml", "PopupScript"} -> Kind(c) = "Element"
      [] OTHER -> FALSE

\* parent.add_child(child)
AddChild(p, c) ==
    /\ p \in made /\ c \in made
    /\ Accepts(p, c)
    /\ Called("add_child", c)
    /\ SetTree(AddTo(Tree, p, c))
    /\ err' = "none"
    /\ UNCHANGED <<flags, bounds, outputs>>

\* n.render()
Render(n) ==
    /\ n \in made
    /\ Kind(n) \in {"Figure", "LayerControl", "Popup"}
    /\ Called("render", n)
    /\ LET st == RenderNode(n, [script |-> script, base |-> base_layers,
                                over |-> overlays, err |-> "none"])
       IN /\ script' = st.script
          /\ base_layers' = st.base
          /\ overlays' = st.over
          /\ err' = st.err
    /\ UNCHANGED <<tree, flags, bounds>>

\* Building a map's layer list and rendering its control.
NextControl ==
    \/ \E l \in Layers : \E name \in GivenNames \cup {None} :
         \E ov \in OverlayArgs(l) : \E ct \in ControlArgs : LayerInit(l, name, ov, ct)
    \/ \E l \in Layers : \E b \in BOOLEAN : SetOverlay(l, b)
    \/ \E l \in Layers : \E b \in BOOLEAN : SetControl(l, b)
    \/ \E c \in Layers \cup {Control} : AddChild(Map, c)
    \/ Render(Control)

SpecControl == Init /\ [][NextControl]_vars

\* Building and rendering a document of groups, markers, icons, popups, a
\* control and a FitBounds.
NextTree ==
    \/ \E g \in Groups : LayerInit(g, None, "default", "default")
    \/ \E b \in BoundsArgs : FitBoundsInit(Fit, b)
    \/ \E m \in Markers : \E icon \in {None, TheIcon} :
         \E popup \in Popups \cup {None, <<"text", 0>>} : MarkerInit(m, icon, popup)
    \/ \E p \in Popups : \E html \in {None, <<"text", 0>>} : PopupInit(p, html)
    \/ \E p \in {Map} \cup Groups \cup Markers \cup Popups :
         \E c \in Nodes \ PlainLayers : AddChild(p, c)
    \/ \E n \in {Fig} \cup Popups : Render(n)

SpecTree == Init /\ [][NextTree]_vars

\* Building popups, their content and their markers, and rendering them; an
\* icon is attached with add_child.
NextPopup ==
    \/ \E m \in Markers : \E popup \in Popups \cup {None, <<"text", 0>>} :
         MarkerInit(m, None, popup)
    \/ \E p \in Popups : \E html \in Elements \cup {None, <<"text", 0>>} : PopupInit(p, html)
    \/ \E p \in {Map} \cup Markers \cup Popups \cup SubElements :
         \E c \in Markers \cup Popups \cup Elements \cup {TheIcon} : AddChild(p, c)
    \/ \E n \in {Fig} \cup Popups : Render(n)

SpecPopup == Init /\ [][NextPopup]_vars

\* ------------------------------------------------ LayerControl properties
\* The last call was LayerControl.render and its scan of the parent ran.
ControlRendered == call = <<"render", Control>> /\ err # "AttributeError"
Siblings == children[parent[Control]]
Base == base_layers[Control]
Over == overlays[Control]
Has(d, k, v) == \E i \in 1..Len(d) : d[i] = <<k, v>>
Controllable == {i \in 1..Len(Siblings) : IsLayer(Siblings[i]) /\ control[Siblings[i]]}

\* C3: after LayerControl.render every controllable Layer among the parent's
\* children has its display name as a key of base_layers and not of overlays
\* when its overlay flag is false, of overlays and not of base_layers when it
\* is true, the key maps to the layer's identifier, and a child that is not a
\* Layer is in neither mapping.
C3_ClassifiedByOverlay ==
    ControlRendered =>
        \A i \in 1..Len(Siblings) :
            LET c == Siblings[i]
                name == layer_name[c]
            IN IF IsLayer(c)
               THEN control[c] =>
                      IF overlay[c]
                      THEN Has(Over, name, c) /\ name \notin Keys(Base)
                      ELSE Has(Base, name, c) /\ name \notin Keys(Over)
               ELSE c \notin Values(Base) \cup Values(Over)

\* C4: after LayerControl.render no entry of base_layers or overlays refers
\* to a Layer child of the parent whose control flag is false.
C4_UncontrolledInNeither ==
    ControlRendered =>
        \A i \in 1..Len(Siblings) :
            (IsLayer(Siblings[i]) /\ ~control[Siblings[i]])
                => Siblings[i] \notin Values(Base) \cup Values(Over)

C4_Witness ==
    /\ ControlRendered
    /\ Len(Base) + Len(Over) > 0
    /\ \E i \in 1..Len(Siblings) : IsLayer(Siblings[i]) /\ ~control[Siblings[i]]

\* Every entry of mapping d comes from a child of the parent that is, now, a
\* controllable Layer with that display name and overlay flag ov.
Derived(d, ov) ==
    \A i \in 1..Len(d) :
        LET v == d[i][2]
        IN /\ InSeq(v, Siblings)
           /\ IsLayer(v) /\ control[v] /\ overlay[v] = ov
           /\ layer_name[v] = d[i][1]
           /\ \A j \in 1..Len(d) : d[j][1] = d[i][1] => j = i

\* C5: the mappings held after a LayerControl.render are the classification
\* of the parent's children at that render: every entry comes from a current
\* controllable child with that name and flag, every current controllable
\* child's name is a key of its mapping, and nothing else is carried over.
C5_DerivedOnEachRender ==
    ControlRendered =>
        /\ Derived(Base, FALSE)
        /\ Derived(Over, TRUE)
        /\ \A i \in Controllable :
             layer_name[Siblings[i]] \in
                 Keys(IF overlay[Siblings[i]] THEN Over ELSE Base)

\* A render that dropped an entry the render before it had produced.
C5_Witness ==
    /\ ControlRendered
    /\ Len(Base) + Len(Over) > 0
    /\ \/ \E i \in 1..Len(before.base) : ~Has(Base, before.base[i][1], before.base[i][2])
       \/ \E i \in 1..Len(before.over) : ~Has(Over, before.over[i][1], before.over[i][2])

\* C7: LayerControl.render on a control without a parent raises (the
\* AttributeError of the scan of None's children, the error the specification
\* calls MissingParent) and leaves base_layers and overlays as they were.
C7_MissingParent ==
    (call = <<"render", Control>> /\ parent[Control] = None) =>
        /\ err = "AttributeError"
        /\ Base = before.base
        /\ Over = before.over

C7_Witness == call = <<"render", Control>> /\ parent[Control] = None /\ err # "none"

\* C10: after LayerControl.render every controllable Layer child of the
\* parent is the value of an entry of base_layers or overlays, and the two
\* mappings together have as many entries as there are such children.
C10_NoLayerLost ==
    ControlRendered =>
        /\ \A i \in Controllable : Siblings[i] \in Values(Base) \cup Values(Over)
        /\ Len(Base) + Len(Over) = Cardinality(Controllable)

\* ---------------------------------------------------- document properties
\* The statements of the script buffer, in the order of the document.
RECURSIVE Flat(_)
Flat(d) == IF d = <<>> THEN <<>> ELSE Head(d)[2] \o Flat(Tail(d))

\* Every identifier a statement uses is declared by an earlier statement.
DefBeforeUse(sc) ==
    LET f == Flat(sc)
    IN \A i \in 1..Len(f) : \A k \in 1..Len(f[i].refs) :
           \E j \in 1..(i - 1) : f[j].def = f[i].refs[k]

\* Every node held in a children collection has that holder as its parent.
IsTree == \A n \in Nodes : \A i \in 1..Len(children[n]) : parent[children[n][i]] = n

\* C1: when a tree built by add_child calls is rendered from the Figure, every
\* statement of the script buffer that uses another node's identifier comes
\* after the statement declaring it, also when the LayerControl was added
\* before a Layer it lists.
C1_DefinitionBeforeUse ==
    [][(call' = <<"render", Fig>> /\ err' = "none" /\ script = <<>> /\ IsTree)
          => DefBeforeUse(script')]_vars

Holders(n) == {P \in Nodes : InSeq(n, children[P])}

\* C9: after any Marker and Popup constructions every Icon and Popup is held
\* in the children of at most one node, and its parent is P exactly when it is
\* in P's children.
C9_TreeOwnership ==
    \A n \in Popups \cup {TheIcon} :
        /\ Cardinality(Holders(n)) <= 1
        /\ \A P \in Nodes : parent[n] = P <=> P \in Holders(n)

\* C6: a rendered FitBounds without bounds emits a statement computing the
\* bounds and passes them to fitBounds; with bounds it emits the literal
\* bounds and no such computation.
C6_AutoboundsFallback ==
    \A i \in 1..Len(script) :
        script[i][1] = Fit =>
            LET b == script[i][2]
            IN IF Truthy(bounds[Fit])
               THEN /\ \A j \in 1..Len(b) : b[j].op # "autobounds"
                    /\ \E j \in 1..Len(b) : b[j].op = "fitBounds" /\ b[j].arg = bounds[Fit]
               ELSE \E j \in 1..Len(b) : \E k \in (j + 1)..Len(b) :
                        /\ b[j].op = "autobounds"
                        /\ b[k].op = "fitBounds" /\ b[k].arg = b[j].def

\* ------------------------------------------------------- Popup properties
\* A popup's block: creation, then content, then the bind, then scripts.
Ordered(b, p) ==
    /\ b[1].op = "L.popup" /\ b[1].def = p
    /\ \E k \in 2..Len(b) :
         /\ b[k].op = "bindPopup"
         /\ \A j \in 2..(k - 1) : b[j].op \in {"$", "setContent"}
         /\ \A j \in (k + 1)..Len(b) : b[j].op = "inline"

\* The block is exactly the one of the popup's present content.
Exact(b, p) ==
    LET h == children[HtmlOf(p)]
        sc == children[ScriptOf(p)]
        k == 2 + 2 * Len(h)
    IN /\ Len(b) = k + Len(sc)
       /\ \A i \in 1..Len(h) :
            /\ b[2 * i].op = "$" /\ b[2 * i].def = h[i]
            /\ b[2 * i + 1].op = "setContent" /\ b[2 * i + 1].refs = <<p, h[i]>>
       /\ b[k].op = "bindPopup" /\ b[k].refs = <<parent[p], p>>
       /\ \A j \in 1..Len(sc) : b[k + j].op = "inline" /\ b[k + j].arg = sc[j]

\* C2: every block a Popup.render appends is, in this order, the creation of
\* the popup, for each HTML child in insertion order its extraction and
\* setContent, the bindPopup on the parent, and the script children.
C2_PopupRenderOrder ==
    /\ \A i \in 1..Len(script) :
         Kind(script[i][1]) = "Popup" => Ordered(script[i][2], script[i][1])
    /\ \A p \in Popups :
         (call = <<"render", p>> /\ err = "none") =>
             /\ p \in Keys(script)
             /\ Exact(script[Lookup(script, p)][2], p)

C2_Witness ==
    \E p \in Popups :
        /\ call = <<"render", p>> /\ err = "none"
        /\ Len(children[HtmlOf(p)]) >= 2
        /\ Len(children[ScriptOf(p)]) >= 1

\* C8: Popup.render on a Popup whose root is not a Figure raises (the
\* AssertionError the specification calls NotInDocument) and the call appends
\* nothing to the script buffer.
C8_NotInDocument ==
    [][\A p \in Popups :
          (call' = <<"render", p>> /\ ~IsFigure(GetRoot(p)))
              => (err' = "AssertionError" /\ script' = script)]_vars

====
